---- MODULE Spec2Model ----
(***************************************************************************)
(* Model of the SmoothScroll class (smooth-scroll.js).                     *)
(*                                                                         *)
(* Five specifications share the variables of the instance:                *)
(*   Spec           the scroll animator and the enable/disable toggle:     *)
(*                  wheel events, animation frames, toggle-button          *)
(*                  mutations and the MutationObserver callback;           *)
(*   SpecFrameRate  the frame-rate measurement: visibility changes,        *)
(*                  window timers and countFrames callbacks;               *)
(*   SpecConstruct  initialize() on any user agent, with or without the    *)
(*                  toggle button, and the page's events afterwards;       *)
(*   SpecBezier     the Bezier functions applied to sampled times;         *)
(*   SpecFair       Spec with a measured frame rate and animation frames   *)
(*                  that keep coming while a callback is requested.        *)
(* Times are integers in milliseconds; scroll quantities are tenths of a   *)
(* pixel; the speed variation is in units of 1/10000.                      *)
(***************************************************************************)
EXTENDS Integers, Sequences, FiniteSets, Bags, TLC

(***************************************************************************)
(* JavaScript values that are not finite numbers.                          *)
(***************************************************************************)
null == -1000001
Infinity == 1000000
NaN == -1000002

(***************************************************************************)
(* Settings: the defaults of the constructor.                              *)
(***************************************************************************)
durationIncreaseFactorTenths == 11
scrollSpeedMultiplier == 12
scrollDuration == 700
limitDuration == 2500
enableLimitDuration == TRUE

(***************************************************************************)
(* Bounds of the model.                                                    *)
(***************************************************************************)
MaxPending == 2
MaxRecords == 2
MaxTime == 2700
MaxCount == 2
MaxMeasurements == 2
GridMax == 12

(* Frame rates measured by the time the first wheel event arrives          *)
(* (null: no measurement window has ended yet).                            *)
CalibratedRates == {60}
WheelDeltas == {-100, 100}

VARIABLES
    stepTime, currentTime, scrollActive, scrollDirection, growingDuration,
    cumulativeScrollQuantity,
    frameRate, frameRateValues, finalFrameRate, isTabActive,
    hidden,            \* document.hidden
    measurements,      \* the measureFrameRate calls with a callback outstanding, oldest first:
                       \* time, count and run are the call's variables, frame tells whether
                       \* countFrames is requested for the next animation frame, timers is
                       \* the number of its setTimeout callbacks still to fire
    pendingSteps,      \* performSmoothScrolling callbacks requested for the next animation frame
    scrollQuantity,    \* tops of the window.scrollBy calls of the last event, in tenths of a pixel
    listeners,         \* 'wheel' event listener list of window, in order of registration
    buttonActive,      \* toggleButtonEl.classList.contains(activeStateClassName)
    mode,              \* action of the last scrollModeToggle call
    \* What the last event was and did (reset by every event):
    lastOp,            \* "construct", "wheel", "frame" or "observer"
    deltaY,            \* deltaY of the wheel event, else 0
    defaultPrevented,  \* whether preventDefault was called on the wheel event
    handled,           \* number of handleWheelEvent calls for the wheel event
    records,           \* number of mutation records handed to the observer callback
    \* How the gesture in flight came about:
    transition,        \* what the last handled wheel event did: "none" before the first,
                       \* "start" (nothing was in flight), "reverse" (scrollActive was true
                       \* and the direction changed), "continue" otherwise
    gestureSteps,      \* animation steps run since a "start", else null
    \* The page and the construction:
    mobile,            \* navigator.userAgent matches /Android|iPhone|iPad/i
    buttonFound,       \* document.querySelector(toggleButtonSelector) is an element, not null
    initialized,       \* initialize() has been called
    thrown,            \* initialize() (and so the constructor) threw a TypeError
    observing,         \* buttonObserver observes the toggle button
    buttonHidden,      \* toggleButtonEl.style.display is 'none'
    \* The measurement windows while the page has been visible since construction:
    stayedVisible,     \* document.hidden has been false ever since the constructor
    windows,           \* `time` of the measureFrameRate calls so far, while stayedVisible
    \* Sampled times t1 = c1 / g <= t2 = c2 / g and what the Bezier functions return for them:
    bezier

animVars == <<stepTime, currentTime, scrollActive, scrollDirection, growingDuration,
              cumulativeScrollQuantity, pendingSteps>>
toggleVars == <<listeners, buttonActive, mode>>
eventVars == <<lastOp, deltaY, defaultPrevented, handled, records, scrollQuantity>>
gestureVars == <<transition, gestureSteps>>
traceVars == <<eventVars, gestureVars>>
rateVars == <<frameRateValues, finalFrameRate, isTabActive, hidden, measurements>>
pageVars == <<mobile, buttonFound, initialized, thrown, observing, buttonHidden>>
windowVars == <<stayedVisible, windows>>
vars == <<animVars, frameRate, rateVars, toggleVars, traceVars, pageVars, windowVars, bezier>>

(***************************************************************************)
(* Arithmetic of JavaScript numbers on the values the model uses.          *)
(***************************************************************************)
Abs(x) == IF x < 0 THEN -x ELSE x
Sign(x) == IF x > 0 THEN 1 ELSE IF x < 0 THEN -1 ELSE 0

\* ToNumber: null converts to 0 in arithmetic.
ToNumber(x) == IF x = null THEN 0 ELSE x

\* x + y where either may be Infinity.
Plus(x, y) == IF ToNumber(x) = Infinity \/ ToNumber(y) = Infinity THEN Infinity
              ELSE ToNumber(x) + ToNumber(y)

\* Math.round(n / d) for d > 0: the nearest integer, halves towards +Infinity.
MathRound(n, d) == (2 * n + d) \div (2 * d)

\* floor(scale * n / d) and the remainder, by long division, for n >= 0, d > 0
\* and scale a power of ten (keeps every intermediate value small).
RECURSIVE LongDiv(_, _, _)
LongDiv(n, d, scale) ==
    IF scale = 1 THEN [q |-> n \div d, r |-> n % d]
    ELSE LET hi == LongDiv(n, d, scale \div 10)
         IN  [q |-> 10 * hi.q + (10 * hi.r) \div d, r |-> (10 * hi.r) % d]

\* Math.round(scale * n / d) for d > 0 and n of either sign.
MathRoundScaled(n, d, scale) ==
    LET ld == LongDiv(Abs(n), d, scale)
    IN  IF n >= 0 THEN ld.q + (IF 2 * ld.r >= d THEN 1 ELSE 0)
        ELSE -(ld.q + (IF 2 * ld.r > d THEN 1 ELSE 0))

(***************************************************************************)
(* calculateBezierDerivative(t, p) for t = c / g, multiplied by g^2 / 3    *)
(* (the common factor cancels in the ratio of calculateSpeedVariation).    *)
(***************************************************************************)
Px == <<0, 1, 1, 3>>
Py == <<1, 1, 0, 0>>

\* Mutant: the last term has the middle term's coefficient, 6 for 3.
calculateBezierDerivative_LastTermDoubled(c, g, p) ==
      (g - c) * (g - c) * (p[2] - p[1])
    + 2 * (g - c) * c * (p[3] - p[2])
    + 2 * c * c * (p[4] - p[3])

calculateBezierDerivative(c, g, p) ==
      (g - c) * (g - c) * (p[2] - p[1])
    + 2 * (g - c) * c * (p[3] - p[2])
    + c * c * (p[4] - p[3])

\* calculateSpeedVariation, in units of 1/10000; NaN when t is not finite
\* (Infinity * 0 in the derivative).
\* Mutant: the derivative of y is not divided by the derivative of x.
calculateSpeedVariation_Undivided(c, g) ==
    IF ToNumber(c) = Infinity THEN NaN
    ELSE LET derivativePy == calculateBezierDerivative(ToNumber(c), g, Py)
         IN  -MathRoundScaled(derivativePy, g * g, 10000)

calculateSpeedVariation(c, g) ==
    IF ToNumber(c) = Infinity THEN NaN
    ELSE LET derivativePx == calculateBezierDerivative(ToNumber(c), g, Px)
             derivativePy == calculateBezierDerivative(ToNumber(c), g, Py)
         IN  -MathRoundScaled(derivativePy, derivativePx, 10000)

\* scrollQuantity of performSmoothScrolling, in tenths of a pixel.
ScrollQuantity(smoothing, direction) ==
    IF smoothing = NaN THEN NaN
    ELSE MathRound(smoothing * scrollSpeedMultiplier * direction * 10, 10000)

(***************************************************************************)
(* The animator's fields as a record, so that the handlers are functions   *)
(* from state to state.                                                    *)
(***************************************************************************)
Animator ==
    [stepTime |-> stepTime, currentTime |-> currentTime, scrollActive |-> scrollActive,
     scrollDirection |-> scrollDirection, growingDuration |-> growingDuration,
     cumulativeScrollQuantity |-> cumulativeScrollQuantity,
     pendingSteps |-> pendingSteps, scrollQuantity |-> <<>>]

\* Math.round(growingDuration * durationIncreaseFactor)
IncreaseDuration(d) == MathRound(d * durationIncreaseFactorTenths, 10)

\* Math.round(1000 / this.frameRate): 1000 / null and 1000 / 0 are Infinity.
StepTimeOf(rate) == IF ToNumber(rate) = 0 THEN Infinity ELSE MathRound(1000, rate)

\* The duration after a same-direction wheel event on an active gesture.
GrowDuration(d) ==
    IF enableLimitDuration
    THEN IF d < limitDuration THEN IncreaseDuration(d) ELSE limitDuration
    ELSE IncreaseDuration(d)

\* Mutant: a wheel event of the same direction restarts the active gesture's time.
handleWheelEvent_RestartsActive(s, dY, rate) ==
    LET newScrollDirection == IF dY > 0 THEN 1 ELSE -1
        s1 == IF newScrollDirection = s.scrollDirection
              THEN IF s.scrollActive
                   THEN [s EXCEPT !.growingDuration = GrowDuration(@), !.currentTime = 0]
                   ELSE [s EXCEPT !.currentTime = 0,
                                  !.growingDuration = scrollDuration,
                                  !.cumulativeScrollQuantity = 0]
              ELSE [s EXCEPT !.growingDuration = IncreaseDuration(scrollDuration),
                             !.cumulativeScrollQuantity = 0]
    IN  [s1 EXCEPT !.scrollDirection = newScrollDirection,
                   !.stepTime = StepTimeOf(rate),
                   !.pendingSteps = IF s.scrollActive THEN @ ELSE @ + 1]

handleWheelEvent(s, dY, rate) ==
    LET newScrollDirection == IF dY > 0 THEN 1 ELSE -1
        \* scrollDirection starts as null, which is not === undefined
        s1 == IF newScrollDirection = s.scrollDirection
              THEN IF s.scrollActive
                   THEN [s EXCEPT !.growingDuration = GrowDuration(@)]
                   ELSE [s EXCEPT !.currentTime = 0,
                                  !.growingDuration = scrollDuration,
                                  !.cumulativeScrollQuantity = 0]
              ELSE [s EXCEPT !.growingDuration = IncreaseDuration(scrollDuration),
                             !.cumulativeScrollQuantity = 0]
    IN  [s1 EXCEPT !.scrollDirection = newScrollDirection,
                   !.stepTime = StepTimeOf(rate),
                   !.pendingSteps = IF s.scrollActive THEN @ ELSE @ + 1]

\* Mutant: the end of the gesture is tested against the base duration.
performSmoothScrolling_EndsAtScrollDuration(s) ==
    LET smoothing == calculateSpeedVariation(s.currentTime, s.growingDuration)
        quantity == ScrollQuantity(smoothing, s.scrollDirection)
        time == Plus(s.currentTime, s.stepTime)
        active == ~(time > scrollDuration)
    IN  [s EXCEPT !.scrollQuantity = Append(@, quantity),
                  !.currentTime = time,
                  !.scrollActive = active,
                  !.pendingSteps = IF active THEN @ + 1 ELSE @]

performSmoothScrolling(s) ==
    LET smoothing == calculateSpeedVariation(s.currentTime, s.growingDuration)
        quantity == ScrollQuantity(smoothing, s.scrollDirection)
        time == Plus(s.currentTime, s.stepTime)
        active == ~(time > s.growingDuration)
    IN  [s EXCEPT !.scrollQuantity = Append(@, quantity),
                  !.currentTime = time,
                  !.scrollActive = active,
                  !.pendingSteps = IF active THEN @ + 1 ELSE @]

(***************************************************************************)
(* Event listeners of window for 'wheel'.                                  *)
(***************************************************************************)
Range(seq) == {seq[i] : i \in DOMAIN seq}

\* addEventListener: a listener already in the list (same callback, same
\* capture flag) is not added again.
\* Mutant: a listener is added even when it is already registered.
addEventListener_NoDedup(ls, cb) == Append(ls, cb)

addEventListener(ls, cb) == IF cb \in Range(ls) THEN ls ELSE Append(ls, cb)

removeEventListener(ls, cb) == SelectSeq(ls, LAMBDA x : x # cb)

\* Mutant: 'disable' removes the suppression listener only.
scrollModeToggle_KeepsHandleWheel(ls, action) ==
    IF action = "enable"
    THEN addEventListener(addEventListener(ls, "preventDefaultScroll"), "handleWheel")
    ELSE IF action = "disable"
    THEN removeEventListener(ls, "preventDefaultScroll")
    ELSE ls

scrollModeToggle(ls, action) ==
    IF action = "enable"
    THEN addEventListener(addEventListener(ls, "preventDefaultScroll"), "handleWheel")
    ELSE IF action = "disable"
    THEN removeEventListener(removeEventListener(ls, "preventDefaultScroll"), "handleWheel")
    ELSE ls

\* One listener's effect on the dispatch state [anim, prevented, handled].
CallListener(cb, d, dY, rate) ==
    IF cb = "preventDefaultScroll" THEN [d EXCEPT !.prevented = TRUE]
    ELSE [d EXCEPT !.anim = handleWheelEvent(@, dY, rate), !.handled = @ + 1]

RECURSIVE Dispatch(_, _, _, _)
Dispatch(ls, d, dY, rate) ==
    IF ls = <<>> THEN d
    ELSE Dispatch(Tail(ls), CallListener(Head(ls), d, dY, rate), dY, rate)

\* buttonObserver: one scrollModeToggle per mutation record, each reading the
\* present class list.
RECURSIVE Observe(_, _, _)
Observe(ls, n, isActive) ==
    IF n = 0 THEN ls
    ELSE Observe(scrollModeToggle(ls, IF isActive THEN "enable" ELSE "disable"), n - 1, isActive)

(***************************************************************************)
(* Frame-rate measurement.                                                 *)
(***************************************************************************)
RECURSIVE Sum(_)
Sum(seq) == IF seq = <<>> THEN 0 ELSE Head(seq) + Sum(Tail(seq))

\* Mutant: the window doubles until it reaches 3000 ms.
NextTime_DoublesPast2000(time) == IF time < 3000 THEN time * 2 ELSE 3000

\* The window after one of `time` ms.
NextTime(time) == IF time < 2000 THEN time * 2 ELSE 3000

\* countFrames, for one measureFrameRate call m, on e = [m, frameRate,
\* frameRateValues]; isActive is this.isTabActive.
countFrames(e, isActive) ==
    IF ~isActive THEN [e EXCEPT !.m.frame = FALSE]
    ELSE IF e.m.run THEN [e EXCEPT !.m.count = @ + 1, !.m.frame = TRUE]
    ELSE LET rate == MathRound((e.m.count + 1) * 1000, e.m.time)
         IN  [e EXCEPT !.m.count = @ + 1, !.m.frame = FALSE,
                       !.frameRate = rate,
                       !.frameRateValues = IF e.m.time = 3000 THEN Append(@, rate) ELSE @]

\* measureFrameRate(time): the calls outstanding after it.  The first countFrames
\* runs at once (count = 1, run = true) and requests the next; both timers are set.
measureFrameRate(ms, time, isActive) ==
    IF ~isActive THEN ms
    ELSE Append(ms, [time |-> time, count |-> 1, run |-> TRUE, frame |-> TRUE, timers |-> 2])

\* A call with no callback outstanding can do nothing more.
Outstanding(ms) == SelectSeq(ms, LAMBDA m : m.frame \/ m.timers > 0)

handleTabVisibilityChange(ms, isHidden, final) ==
    IF isHidden THEN [isTabActive |-> FALSE, measurements |-> ms]
    ELSE [isTabActive |-> TRUE,
          measurements |-> IF final = null THEN measureFrameRate(ms, 500, TRUE) ELSE ms]

\* The countFrames callbacks of one animation frame, in the order requested.
RECURSIVE RunCountFrames(_, _, _, _, _)
RunCountFrames(ms, i, rate, values, isActive) ==
    IF i > Len(ms) THEN [measurements |-> ms, frameRate |-> rate, frameRateValues |-> values]
    ELSE IF ~ms[i].frame THEN RunCountFrames(ms, i + 1, rate, values, isActive)
    ELSE LET e == countFrames([m |-> ms[i], frameRate |-> rate, frameRateValues |-> values],
                              isActive)
         IN  RunCountFrames([ms EXCEPT ![i] = e.m], i + 1, e.frameRate, e.frameRateValues,
                            isActive)

(***************************************************************************)
(* Initial state: after the constructor on a desktop user agent, with the  *)
(* toggle button present.  initialize() has called scrollModeToggle        *)
(* ('enable').  frameRate is null until the first measurement window ends; *)
(* the wheel events of a session find either that or a measured rate.      *)
(***************************************************************************)
InitAnimator ==
    /\ stepTime = null
    /\ currentTime = null
    /\ scrollActive = FALSE      \* null in the source; only ever tested for truthiness
    /\ scrollDirection = null
    /\ growingDuration = null
    /\ cumulativeScrollQuantity = null
    /\ pendingSteps = 0

InitToggle ==
    /\ listeners = scrollModeToggle(<<>>, "enable")
    /\ mode = "enable"
    /\ buttonActive \in BOOLEAN

InitTrace ==
    /\ lastOp = "construct"
    /\ deltaY = 0
    /\ defaultPrevented = FALSE
    /\ handled = 0
    /\ records = 0
    /\ scrollQuantity = <<>>
    /\ transition = "none"
    /\ gestureSteps = null

\* The page of the README: a desktop user agent and the toggle button in the
\* document; initialize() has returned.
InitDesktop ==
    /\ mobile = FALSE
    /\ buttonFound = TRUE
    /\ initialized = TRUE
    /\ thrown = FALSE
    /\ observing = TRUE
    /\ buttonHidden = FALSE

\* No Bezier sample is under study.
NoSample == [c1 |-> 0, c2 |-> 0, g |-> 1, applied |-> FALSE,
             derivativePx1 |-> 0, derivativePx2 |-> 0, speed1 |-> 0, speed2 |-> 0]

\* initialize() calls handleTabVisibilityChange() once.
InitMeasurement ==
    /\ hidden \in BOOLEAN
    /\ frameRate = null
    /\ frameRateValues = <<>>
    /\ finalFrameRate = null
    /\ LET h == handleTabVisibilityChange(<<>>, hidden, null)
       IN  isTabActive = h.isTabActive /\ measurements = h.measurements
    /\ stayedVisible = ~hidden
    /\ windows = IF hidden THEN <<>> ELSE <<500>>

\* The measurement when the first wheel event arrives: as constructed, or with
\* the first (500 ms) window over, its rate in frameRate, and the 1000 ms
\* window begun.
InitCalibration ==
    /\ hidden = FALSE
    /\ isTabActive = TRUE
    /\ frameRateValues = <<>>
    /\ finalFrameRate = null
    /\ stayedVisible = TRUE
    /\ \/ /\ frameRate = null
          /\ measurements = measureFrameRate(<<>>, 500, TRUE)
          /\ windows = <<500>>
       \/ /\ frameRate \in CalibratedRates
          /\ measurements = measureFrameRate(<<>>, NextTime(500), TRUE)
          /\ windows = <<500, NextTime(500)>>

Init ==
    /\ InitAnimator
    /\ InitToggle
    /\ InitTrace
    /\ InitCalibration
    /\ InitDesktop
    /\ bezier = NoSample

InitFrameRate ==
    /\ InitAnimator
    /\ InitToggle
    /\ InitTrace
    /\ InitMeasurement
    /\ buttonActive = TRUE
    /\ InitDesktop
    /\ bezier = NoSample

SetAnimator(s) ==
    /\ stepTime' = s.stepTime
    /\ currentTime' = s.currentTime
    /\ scrollActive' = s.scrollActive
    /\ scrollDirection' = s.scrollDirection
    /\ growingDuration' = s.growingDuration
    /\ cumulativeScrollQuantity' = s.cumulativeScrollQuantity
    /\ pendingSteps' = s.pendingSteps
    /\ scrollQuantity' = s.scrollQuantity

\* What a handled wheel event does to the gesture in flight.
TransitionOf ==
    IF scrollActive /\ Sign(deltaY') # scrollDirection THEN "reverse"
    ELSE IF ~scrollActive /\ pendingSteps = 0 THEN "start"
    ELSE "continue"

\* A wheel event is dispatched to the listeners of window.
WheelEvent(dY) ==
    LET d == Dispatch(listeners, [anim |-> Animator, prevented |-> FALSE, handled |-> 0],
                      dY, frameRate)
    IN  /\ d.anim.pendingSteps <= MaxPending
        /\ ToNumber(d.anim.currentTime) \in {Infinity} \cup 0..MaxTime
        /\ SetAnimator(d.anim)
        /\ lastOp' = "wheel"
        /\ deltaY' = dY
        /\ defaultPrevented' = d.prevented
        /\ handled' = d.handled
        /\ records' = 0
        /\ transition' = IF d.handled = 0 THEN transition ELSE TransitionOf
        /\ gestureSteps' = IF d.handled = 0 THEN gestureSteps
                           ELSE IF transition' = "start" THEN 0 ELSE null
        /\ UNCHANGED <<frameRate, rateVars, toggleVars, pageVars, windowVars, bezier>>

\* An animation frame: the browser runs the callbacks requested since the last
\* frame, one after the other; a callback requested meanwhile waits for the next.
RECURSIVE RunCallbacks(_, _)
RunCallbacks(s, n) ==
    IF n = 0 THEN s ELSE RunCallbacks(performSmoothScrolling(s), n - 1)

AnimationFrame ==
    /\ pendingSteps > 0
    /\ SetAnimator(RunCallbacks([Animator EXCEPT !.pendingSteps = 0], pendingSteps))
    /\ lastOp' = "frame"
    /\ deltaY' = 0 /\ defaultPrevented' = FALSE /\ handled' = 0 /\ records' = 0
    /\ gestureSteps' = IF gestureSteps = null THEN null ELSE gestureSteps + 1
    /\ UNCHANGED <<frameRate, rateVars, toggleVars, transition, pageVars, windowVars, bezier>>

\* Mutant: a 'disable' cancels the animation steps requested.
ButtonMutations_CancelsSteps(n, isActive) ==
    /\ buttonActive' = isActive
    /\ listeners' = Observe(listeners, n, isActive)
    /\ mode' = IF isActive THEN "enable" ELSE "disable"
    /\ lastOp' = "observer"
    /\ records' = n
    /\ deltaY' = 0 /\ defaultPrevented' = FALSE /\ handled' = 0 /\ scrollQuantity' = <<>>
    /\ pendingSteps' = IF isActive THEN pendingSteps ELSE 0
    /\ scrollActive' = IF isActive THEN scrollActive ELSE FALSE
    /\ UNCHANGED <<stepTime, currentTime, scrollDirection, growingDuration,
                   cumulativeScrollQuantity, frameRate, rateVars, gestureVars, pageVars,
                   windowVars, bezier>>

\* Attributes of the toggle button change n times in one task (script.js
\* toggles activeStateClassName on click; any other attribute counts too), and
\* the MutationObserver callback then runs with the n records.
ButtonMutations(n, isActive) ==
    /\ buttonActive' = isActive
    /\ listeners' = Observe(listeners, n, isActive)
    /\ mode' = IF isActive THEN "enable" ELSE "disable"
    /\ lastOp' = "observer"
    /\ records' = n
    /\ deltaY' = 0 /\ defaultPrevented' = FALSE /\ handled' = 0 /\ scrollQuantity' = <<>>
    /\ UNCHANGED <<animVars, frameRate, rateVars, gestureVars, pageVars, windowVars, bezier>>

Next ==
    \/ \E dY \in WheelDeltas : WheelEvent(dY)
    \/ AnimationFrame
    \/ \E n \in 1..MaxRecords, isActive \in BOOLEAN : ButtonMutations(n, isActive)

Spec == Init /\ [][Next]_vars

(***************************************************************************)
(* Spec with a measured frame rate, under fair scheduling of animation     *)
(* frames: the browser runs a requested callback in its next frame, so a   *)
(* callback is not requested forever without a frame.  This is             *)
(* weak fairness of AnimationFrame, with ENABLED <<AnimationFrame>>_vars   *)
(* written as the state predicate it is equal to, pendingSteps > 0 (an     *)
(* animation frame always changes pendingSteps or currentTime).            *)
(***************************************************************************)
InitFair == Init /\ frameRate \in CalibratedRates /\ buttonActive = TRUE

FramesKeepComing == []<>(pendingSteps = 0) \/ []<><<AnimationFrame>>_vars

SpecFair == InitFair /\ [][Next]_vars /\ FramesKeepComing

(***************************************************************************)
(* The frame-rate measurement's events.                                    *)
(***************************************************************************)
\* visibilitychange: document.hidden has changed.
VisibilityChange ==
    LET h == handleTabVisibilityChange(measurements, ~hidden, finalFrameRate)
    IN  /\ Len(h.measurements) <= MaxMeasurements
        /\ hidden' = ~hidden
        /\ isTabActive' = h.isTabActive
        /\ measurements' = h.measurements
        /\ stayedVisible' = FALSE
        /\ windows' = <<>>
        /\ UNCHANGED <<animVars, frameRate, frameRateValues, finalFrameRate, toggleVars,
                       traceVars, pageVars, bezier>>

\* setTimeout(() => { run = false; }, time) of call i fires.
RunTimeout(i) ==
    /\ measurements[i].timers = 2
    /\ measurements' = [measurements EXCEPT ![i].run = FALSE, ![i].timers = 1]
    /\ UNCHANGED <<animVars, frameRate, frameRateValues, finalFrameRate, isTabActive, hidden,
                   toggleVars, traceVars, pageVars, windowVars, bezier>>

\* The setTimeout of time + 100 of call i fires: the call's `time` becomes the
\* next window, and either the next measureFrameRate starts or the final rate
\* is set.  While the page is visible animation frames come more often than
\* every 100 ms, so the countFrames that ends the count has run by then.
NextTimeout(i) ==
    LET time == NextTime(measurements[i].time)
        fired == [measurements EXCEPT ![i].time = time, ![i].timers = 0]
        more == Len(frameRateValues) < 3
        ms == Outstanding(IF more THEN measureFrameRate(fired, time, isTabActive) ELSE fired)
    IN  /\ measurements[i].timers = 1
        /\ ~(isTabActive /\ measurements[i].frame)
        /\ Len(ms) <= MaxMeasurements
        /\ measurements' = ms
        /\ finalFrameRate' = IF more THEN finalFrameRate
                             ELSE MathRound(Sum(frameRateValues), Len(frameRateValues))
        /\ windows' = IF stayedVisible /\ more /\ isTabActive THEN Append(windows, time)
                       ELSE windows
        /\ UNCHANGED <<animVars, frameRate, frameRateValues, isTabActive, hidden, toggleVars,
                       traceVars, pageVars, stayedVisible, bezier>>

\* An animation frame: the countFrames callbacks requested run.
CountFramesFrame ==
    LET r == RunCountFrames(measurements, 1, frameRate, frameRateValues, isTabActive)
    IN  /\ \E i \in DOMAIN measurements : measurements[i].frame
        /\ \A i \in DOMAIN measurements :
               (isTabActive /\ measurements[i].frame /\ measurements[i].run)
                   => measurements[i].count < MaxCount
        /\ measurements' = Outstanding(r.measurements)
        /\ frameRate' = r.frameRate
        /\ frameRateValues' = r.frameRateValues
        /\ UNCHANGED <<animVars, finalFrameRate, isTabActive, hidden, toggleVars, traceVars,
                       pageVars, windowVars, bezier>>

NextFrameRate ==
    \/ VisibilityChange
    \/ \E i \in DOMAIN measurements : RunTimeout(i)
    \/ \E i \in DOMAIN measurements : NextTimeout(i)
    \/ CountFramesFrame

SpecFrameRate == InitFrameRate /\ [][NextFrameRate]_vars

(***************************************************************************)
(* Construction: the constructor has set the fields and calls              *)
(* initialize(), on any user agent, with or without an element matching    *)
(* toggleButtonSelector; then the page's wheel events, animation frames    *)
(* and observed button mutations.                                          *)
(***************************************************************************)
InitConstruct ==
    /\ InitAnimator
    /\ InitTrace
    /\ listeners = <<>>
    /\ mode = "none"
    /\ mobile \in BOOLEAN
    /\ buttonFound \in BOOLEAN
    /\ buttonActive \in BOOLEAN
    /\ buttonActive => buttonFound
    /\ initialized = FALSE
    /\ thrown = FALSE
    /\ observing = FALSE
    /\ buttonHidden = FALSE
    /\ hidden \in BOOLEAN
    /\ isTabActive = FALSE      \* null in the source; only ever tested for truthiness
    /\ frameRate = null
    /\ frameRateValues = <<>>
    /\ finalFrameRate = null
    /\ measurements = <<>>
    /\ stayedVisible = ~hidden
    /\ windows = <<>>
    /\ bezier = NoSample

\* initialize().  On a desktop user agent handleTabVisibilityChange() and
\* scrollModeToggle('enable') are called (their results, undefined, are what
\* is passed to addEventListener('load', ...)), and buttonObserver.observe
\* throws a TypeError when its target is null.  On a mobile user agent the
\* button is hidden; null has no property `style`, a TypeError again.
initialize ==
    LET h == handleTabVisibilityChange(measurements, hidden, finalFrameRate)
    IN  /\ ~initialized
        /\ initialized' = TRUE
        /\ thrown' = ~buttonFound
        /\ IF mobile
           THEN /\ buttonHidden' = buttonFound
                /\ UNCHANGED <<isTabActive, measurements, windows, listeners, mode, observing>>
           ELSE /\ isTabActive' = h.isTabActive
                /\ measurements' = h.measurements
                /\ windows' = IF hidden THEN <<>> ELSE <<500>>
                /\ listeners' = scrollModeToggle(listeners, "enable")
                /\ mode' = "enable"
                /\ observing' = buttonFound
                /\ UNCHANGED buttonHidden
        /\ UNCHANGED <<animVars, frameRate, frameRateValues, finalFrameRate, hidden,
                       buttonActive, traceVars, mobile, buttonFound, stayedVisible, bezier>>

NextConstruct ==
    \/ initialize
    \/ initialized /\ \E dY \in WheelDeltas : WheelEvent(dY)
    \/ initialized /\ AnimationFrame
    \/ observing /\ \E n \in 1..MaxRecords, isActive \in BOOLEAN : ButtonMutations(n, isActive)

SpecConstruct == InitConstruct /\ [][NextConstruct]_vars

(***************************************************************************)
(* The Bezier functions on sampled times: t1 = c1 / g and t2 = c2 / g with *)
(* 0 <= t1 <= t2 <= 1, as currentTime / growingDuration in a gesture.      *)
(***************************************************************************)
Samples ==
    {[NoSample EXCEPT !.c1 = x[1], !.c2 = x[2], !.g = x[3]] :
        x \in {y \in (0..GridMax) \X (0..GridMax) \X (1..GridMax) :
                  y[1] <= y[2] /\ y[2] <= y[3]}}

InitBezier ==
    /\ InitAnimator
    /\ InitToggle
    /\ InitTrace
    /\ InitCalibration
    /\ InitDesktop
    /\ buttonActive = TRUE
    /\ frameRate = null
    /\ bezier \in Samples

\* calculateBezierDerivative(t, Px) and calculateSpeedVariation() at both times.
ApplyBezier ==
    /\ ~bezier.applied
    /\ bezier' = [bezier EXCEPT
                     !.applied = TRUE,
                     !.derivativePx1 = calculateBezierDerivative(bezier.c1, bezier.g, Px),
                     !.derivativePx2 = calculateBezierDerivative(bezier.c2, bezier.g, Px),
                     !.speed1 = calculateSpeedVariation(bezier.c1, bezier.g),
                     !.speed2 = calculateSpeedVariation(bezier.c2, bezier.g)]
    /\ UNCHANGED <<animVars, frameRate, rateVars, toggleVars, traceVars, pageVars, windowVars>>

\* Another pair of times.
NextSample ==
    /\ bezier.applied
    /\ bezier' \in Samples
    /\ UNCHANGED <<animVars, frameRate, rateVars, toggleVars, traceVars, pageVars, windowVars>>

NextBezier == ApplyBezier \/ NextSample

SpecBezier == InitBezier /\ [][NextBezier]_vars

(***************************************************************************)
(* Properties.                                                             *)
(***************************************************************************)
HandlerAttached == "handleWheel" \in Range(listeners)

\* C1: every wheel event handled while no gesture is in flight starts a gesture
\* with direction = sign(deltaY), elapsed time 0 and total duration
\* scrollDuration, and schedules an animation step.
C1_IdleWheelStartsGesture ==
    [][(lastOp' = "wheel" /\ handled' > 0 /\ ~scrollActive /\ pendingSteps = 0)
        => /\ scrollDirection' = Sign(deltaY')
           /\ currentTime' = 0
           /\ growingDuration' = scrollDuration
           /\ pendingSteps' = 1]_vars

\* C2: a gesture started by a wheel event with a calibrated rate, with no further
\* wheel event, runs one step chain of at most growingDuration / stepTime + 1
\* steps; it is active exactly while currentTime <= growingDuration and a step
\* is pending exactly while it is active; once it is over no step is pending,
\* and no step runs or scrolls until the next wheel event.
C2_Calibrated == transition = "start" /\ frameRate # null

C2_State ==
    C2_Calibrated =>
        /\ stepTime \in 1..1000
        /\ pendingSteps <= 1
        /\ gestureSteps = 0 => pendingSteps = 1
        /\ gestureSteps > 0 =>
              /\ scrollActive <=> pendingSteps = 1
              /\ scrollActive <=> currentTime <= growingDuration
              /\ (gestureSteps - 1) * stepTime <= growingDuration

C2_Step ==
    (C2_Calibrated /\ pendingSteps = 0 /\ handled' = 0)
        => pendingSteps' = 0 /\ scrollQuantity' = <<>> /\ UNCHANGED animVars

C2_GestureCompletes == []C2_State /\ [][C2_Step]_vars

C2_Witness ==
    /\ C2_Calibrated /\ stepTime = 17 /\ growingDuration = scrollDuration
    /\ lastOp = "frame" /\ gestureSteps = 42 /\ pendingSteps = 0 /\ ~scrollActive

\* C3: a wheel event of the opposite direction on an active gesture sets the
\* duration to round(scrollDuration * durationIncreaseFactor) and flips the
\* direction, and every scroll delta applied afterwards by the gesture's step
\* chain is zero or has the new direction's sign.
C3_Wheel ==
    (lastOp' = "wheel" /\ handled' > 0 /\ scrollActive /\ Sign(deltaY') # scrollDirection)
        => /\ growingDuration' = IncreaseDuration(scrollDuration)
           /\ scrollDirection' = -scrollDirection

C3_Delta ==
    (transition = "reverse" /\ scrollActive /\ pendingSteps = 1 /\ lastOp' = "frame")
        => \A i \in DOMAIN scrollQuantity' :
               scrollQuantity'[i] = 0 \/ Sign(scrollQuantity'[i]) = scrollDirection

C3_ReversalFlipsDeltas == [][C3_Wheel /\ C3_Delta]_vars

\* C4: with the cap enabled, totalDuration never exceeds limitDuration.
C4_DurationCapped ==
    (enableLimitDuration /\ growingDuration # null) => growingDuration <= limitDuration

\* C5: an active gesture has elapsedTime <= totalDuration, and no animation step
\* runs with elapsedTime > totalDuration (stated for a measured frame rate, so
\* that every stepTime is finite).
C5_Active ==
    (frameRate # null /\ scrollActive) => ToNumber(currentTime) <= growingDuration

C5_Frame ==
    (frameRate # null /\ lastOp' = "frame") => ToNumber(currentTime) <= growingDuration

C5_ElapsedWithinDuration == []C5_Active /\ [][C5_Frame]_vars

\* C6: between a 'disable' and the next 'enable', a wheel event changes no
\* animator state, schedules no step and scrolls nothing.
C6_DisabledWheelIsInert ==
    [][(mode = "disable" /\ lastOp' = "wheel")
        => UNCHANGED animVars /\ handled' = 0 /\ scrollQuantity' = <<>>]_vars

C6_Witness ==
    /\ mode = "disable" /\ lastOp = "wheel" /\ deltaY # 0
    /\ pendingSteps > 0 /\ scrollActive

\* C7: after any sequence of enables and disables the suppressing listener and
\* the gesture listener are both attached or both detached, each at most once,
\* and a wheel event that reaches the gesture handler is also suppressed.
Count(ls, cb) == Cardinality({i \in DOMAIN ls : ls[i] = cb})

C7_ListenersPaired ==
    /\ Count(listeners, "preventDefaultScroll") = Count(listeners, "handleWheel")
    /\ Count(listeners, "handleWheel") <= 1
    /\ HandlerAttached <=> mode = "enable"
    /\ handled > 0 => defaultPrevented

C7_Witness ==
    /\ lastOp = "observer" /\ mode = "enable" /\ records = 2
    /\ listeners = <<"preventDefaultScroll", "handleWheel">>

\* C8: once the final frame rate has been produced it never changes, no
\* measurement window is started and no sample is added.
Begun(m) == m.timers = 2 /\ m.count = 1 /\ m.frame

C8_FinalRateFrozen ==
    [][finalFrameRate # null =>
        /\ finalFrameRate' = finalFrameRate
        /\ frameRateValues' = frameRateValues
        /\ Len(SelectSeq(measurements', Begun)) <= Len(SelectSeq(measurements, Begun))]_vars

\* C9: when the page is hidden during a window, counting stops and no frame
\* callback is requested; when it is visible again with no final rate, the
\* measurement goes on where it was and does not start again with a 500 ms window.
Requested(ms) == Len(SelectSeq(ms, LAMBDA m : m.frame))

C9_Hidden ==
    (hidden /\ hidden')
        => /\ Requested(measurements') <= Requested(measurements)
           /\ \A i \in DOMAIN measurements' :
                 \E j \in DOMAIN measurements : measurements'[i].count = measurements[j].count
           /\ frameRate' = frameRate /\ frameRateValues' = frameRateValues

C9_Visible ==
    (hidden /\ ~hidden' /\ finalFrameRate = null
       /\ \E i \in DOMAIN measurements : measurements[i].time > 500)
        => /\ measurements' = measurements
           /\ \A i \in DOMAIN measurements' : ~(Begun(measurements'[i]) /\ measurements'[i].time = 500)

C9_PauseAndResume == [][C9_Hidden /\ C9_Visible]_vars

\* C10: a wheel event handled before any rate was measured falls back to a
\* default step: stepTime is finite and positive, elapsedTime stays finite and
\* the gesture does not end after a single step.
C10_DefaultStep ==
    (frameRate = null /\ transition # "none") =>
        /\ stepTime \in 1..1000
        /\ ToNumber(currentTime) # Infinity
        /\ (transition = "start" /\ gestureSteps = 1) => scrollActive

\* C11: when no element matches toggleButtonSelector, initialize() raises no
\* error, on a desktop user agent and on a mobile one.
C11_MissingButtonRaisesNoError == (initialized /\ ~buttonFound) => ~thrown

\* C12 (as stated): the magnitude of the speed variation is non-increasing in
\* t: for t1 <= t2 in [0, 1], |speed(t1)| >= |speed(t2)|.
C12_SpeedNonIncreasing ==
    bezier.applied => Abs(bezier.speed1) >= Abs(bezier.speed2)

\* C12 (amended): the speed variation is zero at t = 0 and at t = 1, its
\* magnitude is non-decreasing in t on [0, 2/5] and non-increasing on [5/12, 1]
\* (the peak, about 0.7071, is at t = sqrt(2) - 1).
C12_SpeedRisesThenDecays ==
    bezier.applied =>
        /\ bezier.c1 = 0 => bezier.speed1 = 0
        /\ bezier.c2 = bezier.g => bezier.speed2 = 0
        /\ 5 * bezier.c2 <= 2 * bezier.g => Abs(bezier.speed1) <= Abs(bezier.speed2)
        /\ 12 * bezier.c1 >= 5 * bezier.g => Abs(bezier.speed1) >= Abs(bezier.speed2)

C12_Witness ==
    /\ bezier.applied
    /\ 12 * bezier.c1 >= 5 * bezier.g /\ bezier.c1 < bezier.c2 /\ bezier.c2 < bezier.g
    /\ bezier.speed1 > bezier.speed2 /\ bezier.speed2 > 0

\* C13 (as stated): calculateBezierDerivative(t, Px) is 3 at t = 0 and 0 at
\* t = 1 (the model's value is the source's times g^2 / 3).
C13_DerivativeThreeThenZero ==
    bezier.applied =>
        /\ bezier.c1 = 0 => 3 * bezier.derivativePx1 = 3 * bezier.g * bezier.g
        /\ bezier.c2 = bezier.g => 3 * bezier.derivativePx2 = 0

\* C13 (amended): calculateBezierDerivative(t, Px) is 3 at t = 0 and 6 at t = 1.
C13_DerivativeThreeThenSix ==
    bezier.applied =>
        /\ bezier.c1 = 0 => 3 * bezier.derivativePx1 = 3 * bezier.g * bezier.g
        /\ bezier.c2 = bezier.g => 3 * bezier.derivativePx2 = 6 * bezier.g * bezier.g

C13_Witness ==
    /\ bezier.applied /\ bezier.c1 = 0 /\ bezier.c2 = bezier.g /\ bezier.g > 1
    /\ 3 * bezier.derivativePx1 = 3 * bezier.g * bezier.g
    /\ 3 * bezier.derivativePx2 = 6 * bezier.g * bezier.g

\* C14: of six consecutive same-direction wheel ticks the first, which starts
\* the gesture, sets the duration to 700, and each later one takes it to the
\* next of 770, 847, 932, 1025, 1128, leaves the elapsed time unchanged and
\* schedules no further animation step.
C14_First ==
    (lastOp' = "wheel" /\ handled' > 0 /\ ~scrollActive /\ pendingSteps = 0)
        => growingDuration' = 700

C14_Later ==
    (lastOp' = "wheel" /\ handled' > 0 /\ (scrollActive \/ pendingSteps > 0)
       /\ transition \in {"start", "continue"} /\ Sign(deltaY') = scrollDirection)
        => /\ \A k \in 1..5 :
                 LET durations == <<700, 770, 847, 932, 1025, 1128>>
                 IN  growingDuration = durations[k] => growingDuration' = durations[k + 1]
           /\ growingDuration' <= limitDuration
           /\ currentTime' = currentTime
           /\ pendingSteps' = pendingSteps

C14_SixTicksGrowDuration == [][C14_First /\ C14_Later]_vars

\* C15: a 'disable' on an active gesture changes no animator state and cancels
\* no step; while disabled the active gesture has a step pending, every frame
\* scrolls, and the gesture becomes idle only by a step that finds
\* currentTime > growingDuration.
C15_Disable ==
    (scrollActive /\ lastOp' = "observer" /\ mode' = "disable")
        => UNCHANGED animVars /\ scrollQuantity' = <<>>

C15_Step ==
    (scrollActive /\ mode = "disable" /\ lastOp' = "frame")
        => /\ Len(scrollQuantity') = pendingSteps
           /\ scrollActive' <=> ~(currentTime' > growingDuration')

C15_Idle ==
    (scrollActive /\ mode = "disable" /\ ~scrollActive')
        => lastOp' = "frame" /\ currentTime' > growingDuration'

C15_DisableCancelsNothing ==
    /\ []((scrollActive /\ mode = "disable") => pendingSteps >= 1)
    /\ [][C15_Disable /\ C15_Step /\ C15_Idle]_vars

C15_Witness ==
    /\ mode = "disable" /\ lastOp = "observer" /\ scrollActive /\ pendingSteps = 1
    /\ frameRate # null /\ transition = "start" /\ gestureSteps > 2
    /\ currentTime < growingDuration

\* C19: at most one performSmoothScrolling callback is pending at any time, and
\* an animation frame advances currentTime by at most one stepTime.
C19_OneStepPending ==
    /\ [](pendingSteps <= 1)
    /\ [][lastOp' = "frame" => ToNumber(currentTime') <= Plus(currentTime, stepTime)]_vars

\* C20: with the duration limit enabled and a finite positive stepTime, under
\* fair scheduling of animation frames every active gesture eventually becomes
\* idle, whatever wheel events keep arriving.
C20_ActiveBecomesIdle == scrollActive ~> ~scrollActive

C20_Witness ==
    /\ scrollActive /\ lastOp = "wheel" /\ handled > 0
    /\ growingDuration >= limitDuration /\ stepTime \in 1..1000

\* C16: while the page has stayed visible the measurement windows run in the
\* order 500, 1000, 2000, 3000, 3000, 3000; the window that ends sets the rate
\* to round(count * 1000 / window) and only a 3000 ms window adds it to the
\* samples; with 3 samples no further window starts, and the final rate, once
\* set, is round(mean of the 3 samples).
C16_Order ==
    stayedVisible =>
        /\ windows = SubSeq(<<500, 1000, 2000, 3000, 3000, 3000>>, 1, Len(windows))
        /\ Len(measurements) <= 1
        /\ Len(frameRateValues) <= 3
        /\ Len(frameRateValues) = 3 => Len(windows) = 6
        /\ finalFrameRate = null => Len(measurements) = 1
        /\ finalFrameRate # null =>
              /\ Len(frameRateValues) = 3
              /\ finalFrameRate = MathRound(Sum(frameRateValues), 3)
              /\ measurements = <<>>

C16_WindowEnds ==
    (stayedVisible /\ stayedVisible' /\ measurements # <<>> /\ measurements' # <<>>
       /\ measurements[1].frame /\ ~measurements'[1].frame)
        => LET window == windows[Len(windows)]
           IN  /\ frameRate' = MathRound(measurements'[1].count * 1000, window)
               /\ frameRateValues' = IF window = 3000 THEN Append(frameRateValues, frameRate')
                                      ELSE frameRateValues

C16_NoOtherWrite ==
    (stayedVisible /\ stayedVisible'
       /\ ~(measurements # <<>> /\ measurements' # <<>>
             /\ measurements[1].frame /\ ~measurements'[1].frame))
        => frameRate' = frameRate /\ frameRateValues' = frameRateValues

C17_AtMostThreeSamples == Len(frameRateValues) <= 3

\* C18: the rate that handleWheelEvent reads for stepTime (this.frameRate) is
\* written once, when the final rate is set, and from then on gives
\* stepTime = round(1000 / final rate).
C18_WrittenOnce ==
    frameRate' # frameRate => (finalFrameRate = null /\ finalFrameRate' # null)

C18_StepFromFinalRate ==
    finalFrameRate # null => StepTimeOf(frameRate) = StepTimeOf(finalFrameRate)

C18_RateWrittenOnce == []C18_StepFromFinalRate /\ [][C18_WrittenOnce]_vars
====
